---- MODULE Spec2Model ----
(***************************************************************************)
(* Model of the KiCad library importer (src/src/app.py) and of its         *)
(* application delegate (src/src/ui.py).                                   *)
(*                                                                         *)
(* Text is a sequence of one-character strings.  A parsed S-expression is  *)
(* a record  [k, v, n, c] :                                                *)
(*    k = "list"  c = the children                                         *)
(*    k = "sym"   v = the symbol's characters   (sexpdata.Symbol)          *)
(*    k = "str"   v = the string's characters   (str)                      *)
(*    k = "int"   n = the value                 (int)                      *)
(*    k = "true"                                (True, read from  t)       *)
(* Every record carries all four fields so that any two nodes compare.     *)
(***************************************************************************)
EXTENDS Integers, Sequences, FiniteSets, TLC

VARIABLES
    rtText, rtTree, rtPrev, rtPc, rtPass,     \* parse/serialise round trip
    spRoot, spResult, spPc,                   \* _split_symbol_library applied to a root
    mgExisting, mgIncoming, mgResult, mgPc,   \* _merge_symbol_libraries applied to two trees
    fs,                                       \* the files: path -> [exists, text]
    last,                                     \* the last import_symbol_library call
    tbFile, tbResult, tbPc,                   \* parse_lib_table applied to a table file
    rsUri, rsResult, rsPc,                    \* resolve_library_uri applied to a uri
    fmTree, fmText, fmPc,                     \* _serialise_symbol_library applied to a tree
    afs,                                      \* footprint and model files: path -> [kind, data]
    alast,                                    \* the last footprint or model import
    acalls,                                   \* footprint and model imports so far
    delegate,                                 \* the AppDelegate: its fields, the table's row, the button
    uiTimer,                                  \* a processQueuedPaths: timer is scheduled
    symTable,                                 \* the sym-lib-table, as parse_lib_table reads it
    SYMBOL_LIBRARIES,                         \* the cached symbol libraries
    reqs,                                     \* history: the open requests, in arrival order
    handled,                                  \* history: the requests _handle_open_file was called for
    imported,                                 \* history: per request, the callbacks that returned
    clicks,                                   \* history: callback invocations so far
    uiEvent                                   \* history: the last handler that ran

rtVars == <<rtText, rtTree, rtPrev, rtPc, rtPass>>
spVars == <<spRoot, spResult, spPc>>
mgVars == <<mgExisting, mgIncoming, mgResult, mgPc>>
imVars == <<fs, last>>
tbVars == <<tbFile, tbResult, tbPc>>
rsVars == <<rsUri, rsResult, rsPc>>
fmVars == <<fmTree, fmText, fmPc>>
asVars == <<afs, alast, acalls>>
uiVars ==
    <<delegate, uiTimer, symTable, SYMBOL_LIBRARIES, reqs, handled, imported, clicks, uiEvent>>
vars == <<rtVars, spVars, mgVars, imVars, tbVars, rsVars, fmVars, asVars, uiVars>>

\* What the operations of one component leave alone: the other components.
exceptRT == <<spVars, mgVars, imVars, tbVars, rsVars, fmVars, asVars, uiVars>>
exceptSplit == <<rtVars, mgVars, imVars, tbVars, rsVars, fmVars, asVars, uiVars>>
exceptMerge == <<rtVars, spVars, imVars, tbVars, rsVars, fmVars, asVars, uiVars>>
exceptImport == <<rtVars, spVars, mgVars, tbVars, rsVars, fmVars, asVars, uiVars>>
exceptTable == <<rtVars, spVars, mgVars, imVars, rsVars, fmVars, asVars, uiVars>>
exceptResolve == <<rtVars, spVars, mgVars, imVars, tbVars, fmVars, asVars, uiVars>>
exceptFormat == <<rtVars, spVars, mgVars, imVars, tbVars, rsVars, asVars, uiVars>>
exceptAssets == <<rtVars, spVars, mgVars, imVars, tbVars, rsVars, fmVars, uiVars>>
exceptUI == <<rtVars, spVars, mgVars, imVars, tbVars, rsVars, fmVars, asVars>>

(***************************************************************************)
(* Bounds.                                                                 *)
(***************************************************************************)
MaxLen == 5          \* longest input text of the round-trip specification
MaxPasses == 3       \* parse/serialise passes followed per input text
MaxChildren == 2     \* children after the head of a generated library document
MaxFileEntries == 2  \* children after the head of a generated source file

(***************************************************************************)
(* Nodes.                                                                  *)
(***************************************************************************)
NoNode == [k |-> "none", v |-> <<>>, n |-> 0, c |-> <<>>]
List(children) == [k |-> "list", v |-> <<>>, n |-> 0, c |-> children]
Sym(chars) == [k |-> "sym", v |-> chars, n |-> 0, c |-> <<>>]
Str(chars) == [k |-> "str", v |-> chars, n |-> 0, c |-> <<>>]
IntNode(value) == [k |-> "int", v |-> <<>>, n |-> value, c |-> <<>>]
TrueNode == [k |-> "true", v |-> <<>>, n |-> 0, c |-> <<>>]

IsList(node) == node.k = "list"

Digits == <<"0", "1", "2", "3", "4", "5", "6", "7", "8", "9">>
IsDigit(ch) == \E d \in 1..10 : Digits[d] = ch
DigitValue(ch) == (CHOOSE d \in 1..10 : Digits[d] = ch) - 1
IsSpace(ch) == ch \in {" ", "\n", "\t"}

RECURSIVE DecimalValue(_, _)
DecimalValue(chars, acc) ==
    IF chars = <<>> THEN acc
    ELSE DecimalValue(Tail(chars), 10 * acc + DigitValue(Head(chars)))

RECURSIVE DecimalDigits(_)
DecimalDigits(value) ==
    IF value < 10 THEN <<Digits[value + 1]>>
    ELSE Append(DecimalDigits(value \div 10), Digits[(value % 10) + 1])

(***************************************************************************)
(* sexpdata.loads, as app.py calls it (default nil = "nil", true = "t").   *)
(***************************************************************************)
ParseFail == [ok |-> FALSE, i |-> 0, items |-> <<>>, v |-> <<>>]

\* The scalar an unquoted token stands for.
Atom(chars) ==
    IF chars = <<"n", "i", "l">> THEN List(<<>>)
    ELSE IF chars = <<"t">> THEN TrueNode
    ELSE IF chars # <<>> /\ \A j \in 1..Len(chars) : IsDigit(chars[j])
         THEN IntNode(DecimalValue(chars, 0))
    ELSE Sym(chars)

\* A quoted string from position i (just after the opening quote).
RECURSIVE ParseStr(_, _, _)
ParseStr(s, i, acc) ==
    IF i > Len(s) THEN ParseFail
    ELSE IF s[i] = "\"" THEN [ok |-> TRUE, i |-> i + 1, items |-> <<>>, v |-> acc]
    ELSE IF s[i] = "\\"
         THEN IF i + 1 > Len(s) THEN ParseFail
              ELSE ParseStr(s, i + 2, Append(acc, s[i + 1]))
    ELSE ParseStr(s, i + 1, Append(acc, s[i]))

\* An unquoted token from position i, up to white space, a bracket or a quote.
RECURSIVE ParseAtom(_, _, _)
ParseAtom(s, i, acc) ==
    IF i > Len(s) \/ IsSpace(s[i]) \/ s[i] \in {"(", ")", "\""}
    THEN [ok |-> TRUE, i |-> i, items |-> <<>>, v |-> acc]
    ELSE IF s[i] = "\\"
         THEN IF i + 1 > Len(s) THEN ParseFail
              ELSE ParseAtom(s, i + 2, Append(acc, s[i + 1]))
    ELSE ParseAtom(s, i + 1, Append(acc, s[i]))

\* The expressions from position i up to a closing bracket or the end.
RECURSIVE ParseSexp(_, _, _)
ParseSexp(s, i, acc) ==
    IF i > Len(s) THEN [ok |-> TRUE, i |-> i, items |-> acc, v |-> <<>>]
    ELSE IF s[i] = ")" THEN [ok |-> TRUE, i |-> i, items |-> acc, v |-> <<>>]
    ELSE IF IsSpace(s[i]) THEN ParseSexp(s, i + 1, acc)
    ELSE IF s[i] = "\""
         THEN LET r == ParseStr(s, i + 1, <<>>)
              IN  IF r.ok THEN ParseSexp(s, r.i, Append(acc, Str(r.v)))
                  ELSE ParseFail
    ELSE IF s[i] = "("
         THEN LET r == ParseSexp(s, i + 1, <<>>)
              IN  IF r.ok /\ r.i <= Len(s)
                  THEN ParseSexp(s, r.i + 1, Append(acc, List(r.items)))
                  ELSE ParseFail
    ELSE LET r == ParseAtom(s, i, <<>>)
         IN  IF r.ok THEN ParseSexp(s, r.i, Append(acc, Atom(r.v)))
             ELSE ParseFail

\* loads: the text must hold exactly one expression.
Loads(s) ==
    LET r == ParseSexp(s, 1, <<>>)
    IN  IF r.ok /\ r.i > Len(s) /\ Len(r.items) = 1
        THEN [ok |-> TRUE, v |-> r.items[1]]
        ELSE [ok |-> FALSE, v |-> NoNode]

(***************************************************************************)
(* _format_atom, _format_sexp, _serialise_symbol_library.                  *)
(***************************************************************************)
RECURSIVE Quote(_, _)
Quote(chars, specials) ==
    IF chars = <<>> THEN <<>>
    ELSE (IF Head(chars) \in specials THEN <<"\\", Head(chars)>> ELSE <<Head(chars)>>)
         \o Quote(Tail(chars), specials)

\* As _format_atom, but a string is written without its quotes.
_format_atom_unquoted(node) ==
    CASE node.k = "sym" -> Quote(node.v, {"\\", "\"", "(", ")", " "})
      [] node.k = "str" -> node.v
      [] node.k = "int" -> DecimalDigits(node.n)
      [] node.k = "true" -> <<"t">>
      [] OTHER -> <<"(", ")">>

\* sexpdata.dumps of a value that is no list: a symbol and a string escaped, a
\* string quoted, a number in decimal, True as  t.
_format_atom(node) ==
    CASE node.k = "sym" -> Quote(node.v, {"\\", "\"", "(", ")", " "})
      [] node.k = "str" -> <<"\"">> \o Quote(node.v, {"\\", "\""}) \o <<"\"">>
      [] node.k = "int" -> DecimalDigits(node.n)
      [] node.k = "true" -> <<"t">>
      [] OTHER -> <<"(", ")">>

\* As Spaces, but one space where there should be two.
SpacesHalved(count) == [j \in 1..(count \div 2) |-> " "]
Spaces(count) == [j \in 1..count |-> " "]

\* '\n'.join(items)
RECURSIVE JoinLines(_)
JoinLines(items) ==
    IF items = <<>> THEN <<>>
    ELSE IF Len(items) = 1 THEN items[1]
    ELSE items[1] \o <<"\n">> \o JoinLines(Tail(items))

RECURSIVE _format_sexp(_, _)
_format_sexp(node, indent) ==
    LET indent_str == Spaces(2 * indent)
    IN  IF IsList(node)
        THEN IF node.c = <<>> THEN indent_str \o <<"(", ")">>
             ELSE LET head == node.c[1]
                      first_line ==
                          IF IsList(head) THEN indent_str \o <<"(">>
                          ELSE indent_str \o <<"(">> \o _format_atom(head)
                      body_items ==
                          (IF IsList(head) THEN <<_format_sexp(head, indent + 1)>>
                           ELSE <<>>)
                          \o [j \in 1..(Len(node.c) - 1) |->
                                 _format_sexp(node.c[j + 1], indent + 1)]
                  IN  IF body_items = <<>> THEN first_line \o <<")">>
                      ELSE first_line \o <<"\n">> \o JoinLines(body_items)
                           \o <<"\n">> \o indent_str \o <<")">>
        ELSE indent_str \o _format_atom(node)

_serialise_symbol_library(ast) ==
    LET formatted == _format_sexp(ast, 0)
    IN  IF formatted # <<>> /\ formatted[Len(formatted)] = "\n" THEN formatted
        ELSE formatted \o <<"\n">>

(***************************************************************************)
(* Library documents: _split_symbol_library, _symbol_entry_name.           *)
(***************************************************************************)
KICAD_SYMBOL_LIB ==
    <<"k", "i", "c", "a", "d", "_", "s", "y", "m", "b", "o", "l", "_", "l", "i", "b">>
SYMBOL == <<"s", "y", "m", "b", "o", "l">>

\* As IsSymbolEntry, but a quoted "symbol" head counts as well.
IsSymbolEntryAnyHead(node) ==
    /\ IsList(node)
    /\ node.c # <<>>
    /\ node.c[1].k \in {"sym", "str"}
    /\ node.c[1].v = SYMBOL

\* The test of lines 241-246: a non-empty list whose head is the Symbol  symbol.
IsSymbolEntry(node) ==
    /\ IsList(node)
    /\ node.c # <<>>
    /\ node.c[1].k = "sym"
    /\ node.c[1].v = SYMBOL

\* The loop of lines 240-249 over ast[1:].
RECURSIVE SplitLoop(_, _, _)
SplitLoop(nodes, metadata, symbols) ==
    IF nodes = <<>> THEN [metadata |-> metadata, symbols |-> symbols]
    ELSE IF IsSymbolEntry(Head(nodes))
         THEN SplitLoop(Tail(nodes), metadata, Append(symbols, Head(nodes)))
         ELSE SplitLoop(Tail(nodes), Append(metadata, Head(nodes)), symbols)

SplitError == [ok |-> FALSE, header |-> NoNode, metadata |-> <<>>, symbols |-> <<>>]

_split_symbol_library(ast) ==
    IF \/ ~IsList(ast)
       \/ ast.c = <<>>
       \/ ast.c[1].k # "sym"
       \/ ast.c[1].v # KICAD_SYMBOL_LIB
    THEN SplitError
    ELSE LET parts == SplitLoop(Tail(ast.c), <<>>, <<>>)
         IN  [ok |-> TRUE, header |-> ast.c[1],
              metadata |-> parts.metadata, symbols |-> parts.symbols]

\* ', '.join(items)
RECURSIVE JoinComma(_)
JoinComma(items) ==
    IF items = <<>> THEN <<>>
    ELSE IF Len(items) = 1 THEN items[1]
    ELSE items[1] \o <<",", " ">> \o JoinComma(Tail(items))

\* Python's repr of a parsed value, which str() of a list is built from.
RECURSIVE PyRepr(_)
PyRepr(node) ==
    CASE node.k = "sym" ->
             <<"S", "y", "m", "b", "o", "l", "(", "'">> \o node.v \o <<"'", ")">>
      [] node.k = "str" -> <<"'">> \o node.v \o <<"'">>
      [] node.k = "int" -> DecimalDigits(node.n)
      [] node.k = "true" -> <<"T", "r", "u", "e">>
      [] OTHER ->
             <<"[">> \o JoinComma([j \in 1..Len(node.c) |-> PyRepr(node.c[j])]) \o <<"]">>

\* str(token)
PyStr(node) == IF node.k = "str" THEN node.v ELSE PyRepr(node)

NameError == [ok |-> FALSE, name |-> <<>>]

_symbol_entry_name(entry) ==
    IF Len(entry.c) < 2 THEN NameError
    ELSE LET name_token == entry.c[2]
         IN  IF name_token.k = "sym" THEN [ok |-> TRUE, name |-> name_token.v]
             ELSE [ok |-> TRUE, name |-> PyStr(name_token)]

AllNamed(entries) == \A j \in 1..Len(entries) : _symbol_entry_name(entries[j]).ok
NameSet(entries) == {_symbol_entry_name(entries[j]).name : j \in 1..Len(entries)}

(***************************************************************************)
(* _merge_symbol_libraries.  None is NoNode.  A result is                  *)
(*   [exc, name, ast, added] : exc = "" on return, else the exception      *)
(*   raised; name = the entry name an AssertionError reports.              *)
(***************************************************************************)
MergeRaise(exc, name) == [exc |-> exc, name |-> name, ast |-> NoNode, added |-> 0]

\* The dict comprehension of line 319: a later entry of the same name wins.
RECURSIVE NameToIndex(_, _, _)
NameToIndex(entries, idx, acc) ==
    IF idx >= Len(entries) THEN acc
    ELSE LET name == _symbol_entry_name(entries[idx + 1]).name
         IN  NameToIndex(entries, idx + 1,
                 [x \in (DOMAIN acc) \cup {name} |-> IF x = name THEN idx ELSE acc[x]])

EmptyIndex == [x \in {} |-> 0]

\* As MergeLoop, but an entry whose name is present replaces the entry there.
RECURSIVE MergeLoopOverwrite(_, _, _, _)
MergeLoopOverwrite(symbols_in, symbols_out, name_to_index, added) ==
    IF symbols_in = <<>>
    THEN [exc |-> "", name |-> <<>>, symbols_out |-> symbols_out, added |-> added]
    ELSE LET symbol == Head(symbols_in)
             named == _symbol_entry_name(symbol)
             name == named.name
         IN  IF ~named.ok
             THEN [exc |-> "ValueError", name |-> <<>>, symbols_out |-> <<>>, added |-> 0]
             ELSE IF name \in DOMAIN name_to_index
             THEN MergeLoopOverwrite(Tail(symbols_in),
                      [symbols_out EXCEPT ![name_to_index[name] + 1] = symbol],
                      name_to_index, added)
             ELSE MergeLoopOverwrite(Tail(symbols_in), Append(symbols_out, symbol),
                      [x \in (DOMAIN name_to_index) \cup {name} |->
                          IF x = name THEN Len(symbols_out) ELSE name_to_index[x]],
                      added + 1)

\* As MergeLoop, but an entry whose name is present is skipped.
RECURSIVE MergeLoopSkipRepeat(_, _, _, _)
MergeLoopSkipRepeat(symbols_in, symbols_out, name_to_index, added) ==
    IF symbols_in = <<>>
    THEN [exc |-> "", name |-> <<>>, symbols_out |-> symbols_out, added |-> added]
    ELSE LET symbol == Head(symbols_in)
             named == _symbol_entry_name(symbol)
             name == named.name
         IN  IF ~named.ok
             THEN [exc |-> "ValueError", name |-> <<>>, symbols_out |-> <<>>, added |-> 0]
             ELSE IF name \in DOMAIN name_to_index
             THEN MergeLoopSkipRepeat(Tail(symbols_in), symbols_out, name_to_index, added)
             ELSE MergeLoopSkipRepeat(Tail(symbols_in), Append(symbols_out, symbol),
                      [x \in (DOMAIN name_to_index) \cup {name} |->
                          IF x = name THEN Len(symbols_out) ELSE name_to_index[x]],
                      added + 1)

\* As MergeLoop, but a new entry goes to the front of the list.
RECURSIVE MergeLoopPrepend(_, _, _, _)
MergeLoopPrepend(symbols_in, symbols_out, name_to_index, added) ==
    IF symbols_in = <<>>
    THEN [exc |-> "", name |-> <<>>, symbols_out |-> symbols_out, added |-> added]
    ELSE LET symbol == Head(symbols_in)
             named == _symbol_entry_name(symbol)
             name == named.name
         IN  IF ~named.ok
             THEN [exc |-> "ValueError", name |-> <<>>, symbols_out |-> <<>>, added |-> 0]
             ELSE IF name \in DOMAIN name_to_index
             THEN [exc |-> "AssertionError", name |-> name, symbols_out |-> <<>>, added |-> 0]
             ELSE MergeLoopPrepend(Tail(symbols_in), <<symbol>> \o symbols_out,
                      [x \in (DOMAIN name_to_index) \cup {name} |->
                          IF x = name THEN Len(symbols_out) ELSE name_to_index[x]],
                      added + 1)

\* The loop of lines 323-331.
RECURSIVE MergeLoop(_, _, _, _)
MergeLoop(symbols_in, symbols_out, name_to_index, added) ==
    IF symbols_in = <<>>
    THEN [exc |-> "", name |-> <<>>, symbols_out |-> symbols_out, added |-> added]
    ELSE LET symbol == Head(symbols_in)
             named == _symbol_entry_name(symbol)
             name == named.name
         IN  IF ~named.ok
             THEN [exc |-> "ValueError", name |-> <<>>, symbols_out |-> <<>>, added |-> 0]
             ELSE IF name \in DOMAIN name_to_index
             THEN [exc |-> "AssertionError", name |-> name, symbols_out |-> <<>>, added |-> 0]
             ELSE MergeLoop(Tail(symbols_in), Append(symbols_out, symbol),
                      [x \in (DOMAIN name_to_index) \cup {name} |->
                          IF x = name THEN Len(symbols_out) ELSE name_to_index[x]],
                      added + 1)

\* As meta_out, but the incoming metadata is added to the destination's.
meta_out_union(existing_ast, in, ex) ==
    IF existing_ast = NoNode THEN in.metadata ELSE ex.metadata \o in.metadata

\* meta_out of lines 309-317, from the two split documents.
meta_out(existing_ast, in, ex) ==
    IF existing_ast = NoNode THEN in.metadata ELSE ex.metadata

_merge_symbol_libraries(existing_ast, incoming_ast) ==
    LET in == _split_symbol_library(incoming_ast)
        ex == _split_symbol_library(existing_ast)
        header_out == IF existing_ast = NoNode THEN in.header ELSE ex.header
        symbols_out == IF existing_ast = NoNode THEN <<>> ELSE ex.symbols
        loop == MergeLoop(in.symbols, symbols_out,
                          NameToIndex(symbols_out, 0, EmptyIndex), 0)
    IN  IF ~in.ok THEN MergeRaise("ValueError", <<>>)
        ELSE IF existing_ast # NoNode /\ ~ex.ok THEN MergeRaise("ValueError", <<>>)
        ELSE IF ~AllNamed(symbols_out) THEN MergeRaise("ValueError", <<>>)
        ELSE IF loop.exc # "" THEN MergeRaise(loop.exc, loop.name)
        ELSE [exc |-> "", name |-> <<>>,
              ast |-> List(<<header_out>> \o meta_out(existing_ast, in, ex)
                           \o loop.symbols_out),
              added |-> loop.added]

(***************************************************************************)
(* import_symbol_library.                                                  *)
(*                                                                         *)
(* A path is <<directory, base name>>; a directory is <<directory>>; the   *)
(* empty uri is <<>>.  The directories exist, so os.makedirs changes       *)
(* nothing.  "sys" is KICAD_SYMBOLS_PATH.                                  *)
(***************************************************************************)
Absent == [exists |-> FALSE, text |-> <<>>]
File(text) == [exists |-> TRUE, text |-> text]

Paths == {<<"in", "a">>, <<"in2", "a">>, <<"sys", "a">>, <<"lib", "a">>}
SourcePaths == Paths
TargetUris == {<<>>, <<"lib">>, <<"lib", "a">>}

\* Python orders strings by code point.
CodePoint(ch) ==
    CASE ch = "1" -> 49 [] ch = "2" -> 50
      [] ch = "A" -> 65 [] ch = "B" -> 66 [] ch = "C" -> 67
      [] OTHER -> 0

RECURSIVE StrLess(_, _)
StrLess(a, b) ==
    IF b = <<>> THEN FALSE
    ELSE IF a = <<>> THEN TRUE
    ELSE IF CodePoint(Head(a)) # CodePoint(Head(b))
         THEN CodePoint(Head(a)) < CodePoint(Head(b))
    ELSE StrLess(Tail(a), Tail(b))

RECURSIVE FirstFound(_, _)
\* The names of  entries  that are in  taken, in the order met, each once.
FirstFound(entries, taken) ==
    IF entries = <<>> THEN <<>>
    ELSE LET name == _symbol_entry_name(Head(entries)).name
         IN  IF name \in taken
             THEN <<name>> \o FirstFound(Tail(entries), taken \ {name})
             ELSE FirstFound(Tail(entries), taken)

\* sorted(names)
RECURSIVE Sorted(_)
Sorted(names) ==
    IF names = {} THEN <<>>
    ELSE LET least == CHOOSE x \in names : \A y \in names \ {x} : StrLess(x, y)
         IN  <<least>> \o Sorted(names \ {least})

\* As duplicates, but in the order the incoming entries are met.
duplicates_unsorted(existing_symbols, incoming_symbols) ==
    FirstFound(incoming_symbols, NameSet(existing_symbols))

\* duplicates of line 375.
duplicates(existing_symbols, incoming_symbols) ==
    Sorted(NameSet(existing_symbols) \cap NameSet(incoming_symbols))

_ensure_not_system_symbol(source_path) == source_path[1] # "sys"

\* dest_path of lines 352-356; <<>> when resolve_library_uri raises ValueError.
DestPath(source_path, uri) ==
    IF uri = <<>> THEN <<>>
    ELSE IF Len(uri) = 1 THEN <<uri[1], source_path[2]>>
    ELSE uri

\* _load_symbol_library: exc = "" and the tree, or the exception.
_load_symbol_library(file) ==
    LET parsed == Loads(file.text)
    IN  IF ~file.exists THEN [exc |-> "FileNotFoundError", ast |-> NoNode]
        ELSE IF ~parsed.ok THEN [exc |-> "ParseError", ast |-> NoNode]
        ELSE [exc |-> "", ast |-> parsed.v]

\* The record of a call: its arguments, the destination path and what it held
\* before, the exception raised (exc = "" on return) with what its message
\* reports, and the serialisation of the merged document (when one was built).
NoCall ==
    [called |-> FALSE, source |-> <<>>, exc |-> "", msg |-> "", names |-> <<>>,
     added |-> 0, dest |-> <<>>, before |-> Absent, merged |-> <<>>]

Raised(source, exc, msg, names, dest, before) ==
    [called |-> TRUE, source |-> source, exc |-> exc, msg |-> msg, names |-> names,
     added |-> 0, dest |-> dest, before |-> before, merged |-> <<>>]

\* Where handle.write may stop when it raises: the characters written so far.
CutPoints(text) == {Len(text) \div 2}

\* As WrittenOnRaise, but the destination is opened for writing before the checks.
WrittenOnRaiseTruncating(before) == File(<<>>)

\* The destination after a call that raised before line 383: nothing was written.
WrittenOnRaise(before) == before

\* The destination after  with open(dest_abs, 'w') ...  of lines 383-384: open
\* truncates the file, then the text is serialised, then it is written.
\* fault: "" (none), "serialise" (_serialise_symbol_library raises) or
\* "write" (handle.write raises after  cut  characters).
WrittenOnOpen(text, fault, cut) ==
    IF fault = "" THEN File(text)
    ELSE IF fault = "serialise" THEN File(<<>>)
    ELSE File(SubSeq(text, 1, cut))

import_symbol_library(source_path, uri) ==
    LET dest_abs == DestPath(source_path, uri)
        before == IF dest_abs = <<>> THEN Absent ELSE fs[dest_abs]
        incoming == _load_symbol_library(fs[source_path])
        existing == _load_symbol_library(before)
        in == _split_symbol_library(incoming.ast)
        ex == _split_symbol_library(existing.ast)
        dups == duplicates(ex.symbols, in.symbols)
        merge == _merge_symbol_libraries(existing.ast, incoming.ast)
        text == _serialise_symbol_library(merge.ast)
        raise(exc, msg, names) ==
            /\ last' = Raised(source_path, exc, msg, names, dest_abs, before)
            /\ fs' = IF dest_abs = <<>> THEN fs
                     ELSE [fs EXCEPT ![dest_abs] = WrittenOnRaise(before)]
    IN  IF ~_ensure_not_system_symbol(source_path)
        THEN raise("AssertionError", "system", <<>>)
        ELSE IF dest_abs = <<>> THEN raise("ValueError", "uri", <<>>)
        ELSE IF source_path = dest_abs THEN raise("AssertionError", "identical", <<>>)
        ELSE IF incoming.exc # "" THEN raise(incoming.exc, "source", <<>>)
        ELSE IF before.exists /\ existing.exc # "" THEN raise(existing.exc, "dest", <<>>)
        ELSE IF ~in.ok THEN raise("ValueError", "structure", <<>>)
        ELSE IF ~AllNamed(in.symbols) THEN raise("ValueError", "name", <<>>)
        ELSE IF before.exists /\ ~ex.ok THEN raise("ValueError", "structure", <<>>)
        ELSE IF before.exists /\ ~AllNamed(ex.symbols) THEN raise("ValueError", "name", <<>>)
        ELSE IF before.exists /\ dups # <<>>
             THEN raise("AssertionError", "duplicates", dups)
        ELSE IF merge.exc # "" THEN raise(merge.exc, "present", <<merge.name>>)
        ELSE \E fault \in {"", "serialise", "write"} :
             /\ \E cut \in (IF fault = "write" THEN CutPoints(text) ELSE {0}) :
                   fs' = [fs EXCEPT ![dest_abs] = WrittenOnOpen(text, fault, cut)]
             /\ last' = [called |-> TRUE, source |-> source_path,
                         exc |-> IF fault = "" THEN "" ELSE "Error",
                         msg |-> fault, names |-> <<>>,
                         added |-> IF fault = "" THEN merge.added ELSE 0,
                         dest |-> dest_abs, before |-> before, merged |-> text]

(***************************************************************************)
(* Generated trees.                                                        *)
(***************************************************************************)
RECURSIVE SeqsOfLen(_, _)
SeqsOfLen(S, len) ==
    IF len = 0 THEN {<<>>}
    ELSE {Append(s, x) : s \in SeqsOfLen(S, len - 1), x \in S}

SeqsUpTo(S, len) == UNION {SeqsOfLen(S, k) : k \in 0..len}

EntryA1 == List(<<Sym(SYMBOL), Str(<<"A">>), IntNode(1)>>)
EntryA2 == List(<<Sym(SYMBOL), Str(<<"A">>), IntNode(2)>>)
EntryB == List(<<Sym(SYMBOL), Str(<<"B">>)>>)
EntrySymA == List(<<Sym(SYMBOL), Sym(<<"A">>)>>)
EntryNoName == List(<<Sym(SYMBOL)>>)
MetaVersion == List(<<Sym(<<"v">>), IntNode(1)>>)
MetaGenerator == List(<<Sym(<<"g">>), Str(<<"k">>)>>)
MetaAtom == Sym(SYMBOL)
MetaQuotedHead == List(<<Str(SYMBOL), Str(<<"A">>)>>)
MetaEmpty == List(<<>>)

Document(children) == List(<<Sym(KICAD_SYMBOL_LIB)>> \o children)

ChildPool ==
    {EntryA1, EntryB, EntryNoName, MetaVersion, MetaAtom, MetaQuotedHead, MetaEmpty}

\* Roots for _split_symbol_library: documents, and roots it must refuse.
SplitRoots ==
    {Document(cs) : cs \in SeqsUpTo(ChildPool, MaxChildren)}
    \cup {List(<<Str(KICAD_SYMBOL_LIB)>> \o cs) : cs \in SeqsUpTo(ChildPool, 1)}
    \cup {List(<<Sym(SYMBOL)>> \o cs) : cs \in SeqsUpTo(ChildPool, 1)}
    \cup {List(<<Document(<<>>)>> \o cs) : cs \in SeqsUpTo(ChildPool, 1)}
    \cup {List(<<>>), Sym(KICAD_SYMBOL_LIB), Str(KICAD_SYMBOL_LIB), IntNode(1), TrueNode}

MergePool == {EntryA1, EntryA2, EntryB, EntrySymA, EntryNoName, MetaVersion, MetaGenerator}

MergeDocs ==
    {Document(cs) : cs \in SeqsUpTo(MergePool, MaxChildren)}
    \cup {List(<<Sym(SYMBOL), Str(<<"A">>)>>), Sym(KICAD_SYMBOL_LIB)}

EntryC == List(<<Sym(SYMBOL), Str(<<"C">>)>>)

FilePool == {EntryA2, EntryB, MetaVersion}

\* What the source in/a may hold: library documents, a document with an entry
\* that has no name, a tree that is no library, and text that does not parse.
SourceTexts ==
    {_serialise_symbol_library(Document(cs)) : cs \in SeqsUpTo(FilePool, MaxFileEntries)}
    \cup {_serialise_symbol_library(Document(<<EntryNoName>>)),
          _serialise_symbol_library(List(<<Sym(SYMBOL), Str(<<"A">>)>>)),
          <<"(">>}

\* What the destination lib/a may hold at the start.
DestTexts ==
    {_serialise_symbol_library(Document(cs)) :
        cs \in {<<>>, <<EntryA1>>, <<MetaVersion, EntryA1, EntryB>>, <<EntryA1, EntryA1>>,
                <<EntrySymA>>}}
    \cup {<<"(", "k">>}

(***************************************************************************)
(* _split_symbol_library applied to one root.                              *)
(***************************************************************************)
SplitInit ==
    /\ spRoot \in SplitRoots
    /\ spResult = SplitError
    /\ spPc = "call"

Split ==
    /\ spPc = "call"
    /\ spResult' = _split_symbol_library(spRoot)
    /\ spPc' = "done"
    /\ UNCHANGED <<spRoot, exceptSplit>>

(***************************************************************************)
(* _merge_symbol_libraries applied to one pair of trees.                   *)
(***************************************************************************)
MergeInit ==
    /\ mgExisting \in MergeDocs \cup {NoNode}
    /\ mgIncoming \in MergeDocs
    /\ mgResult = MergeRaise("", <<>>)
    /\ mgPc = "call"

Merge ==
    /\ mgPc = "call"
    /\ mgResult' = _merge_symbol_libraries(mgExisting, mgIncoming)
    /\ mgPc' = "done"
    /\ UNCHANGED <<mgExisting, mgIncoming, exceptMerge>>

(***************************************************************************)
(* Round trip: a text is parsed, serialised, parsed again, ...             *)
(***************************************************************************)
Alphabet == {"(", ")", " ", "t", "1", "\""}

RECURSIVE TextsOfLen(_)
TextsOfLen(len) ==
    IF len = 0 THEN {<<>>}
    ELSE {Append(s, ch) : s \in TextsOfLen(len - 1), ch \in Alphabet}

InputTexts == UNION {TextsOfLen(len) : len \in 0..MaxLen}

(***************************************************************************)
(* The importer: files on disk and import_symbol_library calls.            *)
(***************************************************************************)
Init ==
    /\ \E a \in SourceTexts, d \in {File(t) : t \in DestTexts} \cup {Absent} :
          fs = [p \in Paths |->
                  CASE p = <<"in", "a">> -> File(a)
                    [] p = <<"in2", "a">> -> File(_serialise_symbol_library(Document(<<EntryC>>)))
                    [] p = <<"sys", "a">> -> File(_serialise_symbol_library(Document(<<EntryB>>)))
                    [] p = <<"lib", "a">> -> d
                    [] OTHER -> Absent]
    /\ last = NoCall

ImportSymbolLibrary ==
    /\ \E source_path \in SourcePaths, uri \in TargetUris :
          import_symbol_library(source_path, uri)
    /\ UNCHANGED exceptImport

ImportIdle ==
    /\ fs = [p \in Paths |-> Absent]
    /\ last = NoCall

RTIdle ==
    /\ rtText = <<>>
    /\ rtTree = NoNode
    /\ rtPrev = NoNode
    /\ rtPc = "idle"
    /\ rtPass = 0

SplitIdle ==
    /\ spRoot = NoNode
    /\ spResult = SplitError
    /\ spPc = "idle"

MergeIdle ==
    /\ mgExisting = NoNode
    /\ mgIncoming = NoNode
    /\ mgResult = MergeRaise("", <<>>)
    /\ mgPc = "idle"

RTInit ==
    /\ rtText \in InputTexts
    /\ rtTree = NoNode
    /\ rtPrev = NoNode
    /\ rtPc = "parse"
    /\ rtPass = 0

RTParse ==
    /\ rtPc = "parse"
    /\ rtPass < MaxPasses
    /\ Loads(rtText).ok
    /\ rtPrev' = rtTree
    /\ rtTree' = Loads(rtText).v
    /\ rtPass' = rtPass + 1
    /\ rtPc' = "serialise"
    /\ UNCHANGED <<rtText, exceptRT>>

RTParseError ==
    /\ rtPc = "parse"
    /\ ~Loads(rtText).ok
    /\ rtPc' = "error"
    /\ UNCHANGED <<rtText, rtTree, rtPrev, rtPass, exceptRT>>

RTSerialise ==
    /\ rtPc = "serialise"
    /\ rtText' = _serialise_symbol_library(rtTree)
    /\ rtPc' = "parse"
    /\ UNCHANGED <<rtTree, rtPrev, rtPass, exceptRT>>

TableIdle ==
    /\ tbFile = Absent
    /\ tbResult = [exc |-> "", libraries |-> <<>>]
    /\ tbPc = "idle"

ResolveIdle ==
    /\ rsUri = <<>>
    /\ rsResult = [exc |-> "", path |-> <<>>]
    /\ rsPc = "idle"

FormatIdle ==
    /\ fmTree = NoNode
    /\ fmText = <<>>
    /\ fmPc = "idle"

AssetsIdle ==
    /\ afs = <<>>
    /\ alast = [called |-> FALSE, path |-> <<>>, destination |-> <<>>, before |-> <<>>,
                exc |-> "", copied |-> FALSE]
    /\ acalls = 0

(***************************************************************************)
(* What the claims below read: a statement of the document shape written   *)
(* without the code's loop.                                                *)
(***************************************************************************)
EntryShape(node) ==
    node.k = "list" /\ Len(node.c) >= 1 /\ node.c[1] = Sym(SYMBOL)

RootRefused(root) ==
    \/ root.k # "list"
    \/ Len(root.c) = 0
    \/ root.c[1] # Sym(KICAD_SYMBOL_LIB)

EntriesOf(root) == SelectSeq(Tail(root.c), EntryShape)
NotEntryShape(node) == ~EntryShape(node)
MetadataOf(root) == SelectSeq(Tail(root.c), NotEntryShape)

NamesDistinct(entries) ==
    \A j, k \in 1..Len(entries) :
        j # k => _symbol_entry_name(entries[j]).name # _symbol_entry_name(entries[k]).name

\* A document the merge can read: it splits and every entry has a name field.
Readable(root) == ~RootRefused(root) /\ AllNamed(EntriesOf(root))

\* The last call got as far as comparing the names of two readable documents:
\* the source is outside KiCad's own directory, the destination is another,
\* existing file, and both files hold library documents whose entries have names.
ReachedNameCheck ==
    /\ last.called
    /\ last.source[1] # "sys"
    /\ last.dest # <<>>
    /\ last.source # last.dest
    /\ fs[last.source].exists /\ Loads(fs[last.source].text).ok
    /\ last.before.exists /\ Loads(last.before.text).ok
    /\ Readable(Loads(fs[last.source].text).v)
    /\ Readable(Loads(last.before.text).v)

CommonNames ==
    NameSet(EntriesOf(Loads(fs[last.source].text).v))
        \cap NameSet(EntriesOf(Loads(last.before.text).v))

\* C1: when the destination exists and shares an entry name with the incoming
\* library, the import fails with an error listing exactly the shared names, each
\* once, in ascending order.
ConflictListsEveryName ==
    ReachedNameCheck =>
        /\ CommonNames # {} =>
              /\ last.exc = "AssertionError"
              /\ last.msg = "duplicates"
              /\ {last.names[j] : j \in 1..Len(last.names)} = CommonNames
              /\ Len(last.names) = Cardinality(CommonNames)
              /\ \A j \in 1..(Len(last.names) - 1) :
                    StrLess(last.names[j], last.names[j + 1])
        /\ last.msg = "duplicates" => CommonNames # {}

\* Two names collided, and the incoming library lists them in descending order.
ConflictWitness ==
    /\ ReachedNameCheck
    /\ last.msg = "duplicates"
    /\ last.names = <<<<"A">>, <<"B">>>>
    /\ EntriesOf(Loads(fs[last.source].text).v) = <<EntryB, EntryA2>>

\* C2: an import that fails on a name conflict between destination and incoming
\* library leaves the destination file as it was.
ConflictLeavesDestination ==
    (last.called /\ last.exc = "AssertionError" /\ last.msg = "duplicates") =>
        fs[last.dest] = last.before

\* A conflict was reported against a destination that holds a library.
ConflictLeavesDestinationWitness ==
    /\ last.called
    /\ last.msg = "duplicates"
    /\ last.before.exists
    /\ Len(last.before.text) > 1
    /\ fs[last.dest] = last.before

\* C6: the destination written by an import that returned has pairwise distinct
\* entry names.
WrittenNamesDistinct ==
    (last.called /\ last.exc = "") =>
        NamesDistinct(EntriesOf(Loads(fs[last.dest].text).v))

\* C8: after a call, returned or failed, the destination holds what it held before
\* or the whole serialisation of the merged document.
DestinationNeverCorrupt ==
    (last.called /\ last.dest # <<>>) =>
        \/ fs[last.dest] = last.before
        \/ (last.merged # <<>> /\ fs[last.dest] = File(last.merged))

\* C9: _split_symbol_library fails exactly on a root that is no list, is empty or
\* whose head is not the symbol kicad_symbol_lib; otherwise the header is the head
\* and the other children are partitioned, in order, into entries and metadata.
SplitContract ==
    spPc = "done" =>
        /\ spResult.ok <=> ~RootRefused(spRoot)
        /\ spResult.ok =>
              /\ spResult.header = spRoot.c[1]
              /\ spResult.symbols = EntriesOf(spRoot)
              /\ spResult.metadata = MetadataOf(spRoot)
              /\ Len(spResult.symbols) + Len(spResult.metadata) = Len(spRoot.c) - 1

\* A document was split whose entry comes before a metadata node.
SplitWitness ==
    /\ spPc = "done"
    /\ spResult.ok
    /\ Len(spRoot.c) = 3
    /\ EntryShape(spRoot.c[2])
    /\ ~EntryShape(spRoot.c[3])
    /\ spResult.symbols # <<>>
    /\ spResult.metadata # <<>>

\* C3 as stated: every incoming document that splits and names its entries merges
\* into an absent destination, giving the incoming header, metadata and entries.
MergeIntoEmptyAlwaysSucceeds ==
    (mgPc = "done" /\ mgExisting = NoNode /\ Readable(mgIncoming)) =>
        /\ mgResult.exc = ""
        /\ mgResult.ast = List(<<mgIncoming.c[1]>> \o MetadataOf(mgIncoming)
                                \o EntriesOf(mgIncoming))
        /\ mgResult.added = Len(EntriesOf(mgIncoming))

\* C3 amended: an incoming document that splits, names its entries and has
\* pairwise distinct entry names merges into an absent destination, giving the
\* incoming header, metadata and entries in order and added = the entry count;
\* one with a repeated entry name is refused with an AssertionError.
MergeIntoEmpty ==
    (mgPc = "done" /\ mgExisting = NoNode /\ Readable(mgIncoming)) =>
        IF NamesDistinct(EntriesOf(mgIncoming))
        THEN /\ mgResult.exc = ""
             /\ mgResult.ast = List(<<mgIncoming.c[1]>> \o MetadataOf(mgIncoming)
                                     \o EntriesOf(mgIncoming))
             /\ mgResult.added = Len(EntriesOf(mgIncoming))
        ELSE /\ mgResult.exc = "AssertionError"
             /\ mgResult.name \in NameSet(EntriesOf(mgIncoming))

\* Two distinct entries and a metadata node were merged into an absent destination.
MergeIntoEmptyWitness ==
    /\ mgPc = "done"
    /\ mgExisting = NoNode
    /\ mgResult.exc = ""
    /\ mgResult.added = 2
    /\ mgIncoming = Document(<<EntryB, EntryA1>>)

MergeKeepsDestinationMetadata ==
    (mgPc = "done" /\ mgExisting # NoNode /\ mgResult.exc = "") =>
        /\ mgResult.ast.c[1] = mgExisting.c[1]
        /\ MetadataOf(mgResult.ast) = MetadataOf(mgExisting)

\* The incoming document carried metadata the destination does not have.
MergeKeepsMetadataWitness ==
    /\ mgPc = "done"
    /\ mgExisting = Document(<<MetaVersion, EntryA1>>)
    /\ mgIncoming = Document(<<MetaGenerator, EntryB>>)
    /\ mgResult.exc = ""

\* Some incoming entry has the name of a destination entry.
Collides(existing, incoming) ==
    NameSet(EntriesOf(incoming)) \cap NameSet(EntriesOf(existing)) # {}

RoundTripStable ==
    /\ (rtPass >= 1 => rtPc # "error")
    /\ (rtPass >= 2 => rtTree = rtPrev)

\* A document whose first child is a list was serialised and parsed again.
RoundTripWitness ==
    /\ rtPass >= 2
    /\ IsList(rtTree) /\ Len(rtTree.c) >= 2 /\ IsList(rtTree.c[1])

(***************************************************************************)
(* The table reader: parse_lib_table applied to one table file.            *)
(***************************************************************************)
MaxTableChildren == 2   \* children after the head of a generated table

LIB == <<"l", "i", "b">>

_symbol_name(token) == IF token.k = "sym" THEN token.v ELSE PyStr(token)
_value_to_str(value) == IF value.k = "sym" THEN value.v ELSE PyStr(value)

\* A record is a dict: a function from the keys it holds to their values.
EmptyRecord == [key \in {} |-> <<>>]
SetKey(record, key, value) ==
    [k \in DOMAIN record \cup {key} |-> IF k = key THEN value ELSE record[k]]

IsPairAtLeastTwo(pair) == IsList(pair) /\ Len(pair.c) >= 2
IsPair(pair) == IsList(pair) /\ Len(pair.c) = 2

RECURSIVE RecordLoop(_, _)
RecordLoop(pairs, record) ==
    IF pairs = <<>> THEN record
    ELSE LET pair == Head(pairs) IN
         IF ~IsPair(pair) THEN RecordLoop(Tail(pairs), record)
         ELSE RecordLoop(Tail(pairs),
                         SetKey(record, _symbol_name(pair.c[1]), _value_to_str(pair.c[2])))

IsLibNode(node) ==
    /\ IsList(node)
    /\ node.c # <<>>
    /\ node.c[1].k = "sym"
    /\ node.c[1].v = LIB

RECURSIVE TableLoop(_, _)
TableLoop(nodes, libraries) ==
    IF nodes = <<>> THEN libraries
    ELSE LET node == Head(nodes) IN
         IF ~IsLibNode(node) THEN TableLoop(Tail(nodes), libraries)
         ELSE LET record == RecordLoop(Tail(node.c), EmptyRecord) IN
              IF DOMAIN record = {} THEN TableLoop(Tail(nodes), libraries)
              ELSE TableLoop(Tail(nodes), Append(libraries, record))

TableOk(libraries) == [exc |-> "", libraries |-> libraries]
TableRaise(exc) == [exc |-> exc, libraries |-> <<>>]

\* The read and the parse sit inside the try; the loop over the parsed value
\* does not.  Iterating a list visits its children, iterating a str visits
\* one-character strs (none of them a list), and an int, a bool or a Symbol
\* is not iterable.
TableOf(parsed) ==
    IF ~parsed.ok THEN TableOk(<<>>)
    ELSE CASE parsed.v.k = "list" -> TableOk(TableLoop(parsed.v.c, <<>>))
           [] parsed.v.k = "str" -> TableOk(<<>>)
           [] OTHER -> TableRaise("TypeError")
parse_lib_table(file) ==
    IF ~file.exists THEN TableOk(<<>>) ELSE TableOf(Loads(file.text))

\* Generated tables.
NAME == <<"n", "a", "m", "e">>
URI == <<"u", "r", "i">>
LibA ==
    List(<<Sym(LIB), List(<<Sym(NAME), Str(<<"A">>)>>), List(<<Sym(URI), Str(<<"/", "x">>)>>)>>)
LibB == List(<<Sym(LIB), List(<<Sym(NAME), Sym(<<"B">>)>>)>>)
LibTwice ==
    List(<<Sym(LIB), List(<<Sym(NAME), Str(<<"A">>)>>), List(<<Sym(NAME), Str(<<"C">>)>>)>>)
LibNoPairs ==
    List(<<Sym(LIB), List(<<Sym(NAME)>>), List(<<Sym(<<"a">>), Sym(<<"b">>), Sym(<<"c">>)>>),
           Sym(<<"x">>)>>)
LibBare == List(<<Sym(LIB)>>)
LibQuoted == List(<<Str(LIB), List(<<Sym(NAME), Str(<<"A">>)>>)>>)
LibNested == List(<<Sym(LIB), List(<<IntNode(1), List(<<Sym(<<"b">>)>>)>>)>>)
TableVersion == List(<<Sym(<<"v">>), IntNode(7)>>)
TablePool ==
    {LibA, LibB, LibTwice, LibNoPairs, LibBare, LibQuoted, LibNested, TableVersion,
     Sym(<<"x">>)}
TableRoots ==
    {List(<<Sym(<<"t", "b", "l">>)>> \o children) :
        children \in SeqsUpTo(TablePool, MaxTableChildren)} \cup {LibA}
TableTexts ==
    {_serialise_symbol_library(root) : root \in TableRoots}
        \cup {<<>>, <<"(">>, <<"4", "2">>, <<"t">>, <<"\"", "s", "\"">>, <<"(", ")">>}
TableFiles == {File(text) : text \in TableTexts} \cup {Absent}

TableInit ==
    /\ tbFile \in TableFiles
    /\ tbResult = TableOk(<<>>)
    /\ tbPc = "call"

ParseLibTable ==
    /\ tbPc = "call"
    /\ tbResult' = parse_lib_table(tbFile)
    /\ tbPc' = "done"
    /\ UNCHANGED <<tbFile, exceptTable>>

\* C11: parse_lib_table never propagates an error, whatever the file holds.
TableNeverRaises == tbPc = "done" => tbResult.exc = ""

\* What the claims say of a parsed table.
TablePairs(node) == SelectSeq(Tail(node.c), LAMBDA p : p.k = "list" /\ Len(p.c) = 2)
TableText(token) == IF token.k = "sym" THEN token.v ELSE PyStr(token)
ExpectedRecord(node) ==
    LET ps == TablePairs(node)
        keys == {TableText(ps[j].c[1]) : j \in 1..Len(ps)}
    IN [key \in keys |->
          LET j == CHOOSE j \in 1..Len(ps) :
                      /\ TableText(ps[j].c[1]) = key
                      /\ \A h \in (j + 1)..Len(ps) : TableText(ps[h].c[1]) # key
          IN TableText(ps[j].c[2])]
YieldsRecord(node) ==
    /\ node.k = "list"
    /\ node.c # <<>>
    /\ node.c[1] = Sym(LIB)
    /\ TablePairs(node) # <<>>
TableParsesToList == tbFile.exists /\ Loads(tbFile.text).ok /\ Loads(tbFile.text).v.k = "list"

\* C12: one record per top-level child list headed by the symbol lib that
\* has a two-element child, in document order; a record maps the first
\* element of each two-element child to its second; other children are
\* skipped and a lib child without a two-element child yields no record.
TableRecords ==
    (tbPc = "done" /\ TableParsesToList) =>
        LET kept == SelectSeq(Loads(tbFile.text).v.c, YieldsRecord) IN
        /\ tbResult.exc = ""
        /\ Len(tbResult.libraries) = Len(kept)
        /\ \A j \in 1..Len(kept) : tbResult.libraries[j] = ExpectedRecord(kept[j])

TableRecordsWitness ==
    /\ tbPc = "done"
    /\ TableParsesToList
    /\ Len(tbResult.libraries) = 2
    /\ tbResult.libraries[1] # tbResult.libraries[2]
    /\ \E j \in 1..2 : DOMAIN tbResult.libraries[j] = {NAME, URI}

(***************************************************************************)
(* The URI resolver: resolve_library_uri applied to one uri.               *)
(***************************************************************************)
MaxPieces == 3   \* pieces a generated uri is built from

\* The environment of the process.
KICAD_SYMBOLS_PATH == <<"/", "K", "/", "s">>
KICAD_FOOTPRINTS_PATH == <<"/", "K", "/", "f">>
KICAD_3D_PATH == <<"/", "K", "/", "m">>
Environ == [name \in {<<"H", "O", "M", "E">>} |-> <<"/", "h">>]
Cwd == <<"/", "w">>

StartsWith(s, prefix) == Len(s) >= Len(prefix) /\ SubSeq(s, 1, Len(prefix)) = prefix
Contains(s, token) ==
    \E i \in 1..(Len(s) - Len(token) + 1) : SubSeq(s, i, i + Len(token) - 1) = token
Drop(s, count) == SubSeq(s, count + 1, Len(s))

\* str.replace: every occurrence, left to right, not overlapping.
RECURSIVE Replace(_, _, _)
Replace(s, token, value) ==
    IF s = <<>> THEN <<>>
    ELSE IF StartsWith(s, token) THEN value \o Replace(Drop(s, Len(token)), token, value)
    ELSE <<Head(s)>> \o Replace(Tail(s), token, value)

replacements ==
    << <<<<"$", "{", "K", "I", "C", "A", "D", "9", "_", "S", "Y", "M", "B", "O", "L", "_", "D", "I", "R", "}">>, KICAD_SYMBOLS_PATH>>,
       <<<<"$", "{", "K", "I", "C", "A", "D", "9", "_", "F", "O", "O", "T", "P", "R", "I", "N", "T", "_", "D", "I", "R", "}">>, KICAD_FOOTPRINTS_PATH>>,
       <<<<"$", "{", "K", "I", "C", "A", "D", "9", "_", "3", "D", "M", "O", "D", "E", "L", "_", "D", "I", "R", "}">>, KICAD_3D_PATH>>,
       <<<<"$", "{", "K", "I", "C", "A", "D", "9", "_", "3", "D", "_", "M", "O", "D", "E", "L", "_", "D", "I", "R", "}">>, KICAD_3D_PATH>> >>

RECURSIVE ReplaceLoop(_, _)
ReplaceLoop(resolved, items) ==
    IF items = <<>> THEN resolved
    ELSE LET token == Head(items)[1]
             real_path == Head(items)[2]
         IN IF real_path # <<>> /\ Contains(resolved, token)
            THEN ReplaceLoop(Replace(resolved, token, real_path), Tail(items))
            ELSE ReplaceLoop(resolved, Tail(items))

\* Index of the first character of s that is in chars, Len(s) + 1 if none.
RECURSIVE FindAny(_, _, _)
FindAny(s, chars, from) ==
    IF from > Len(s) THEN Len(s) + 1
    ELSE IF s[from] \in chars THEN from
    ELSE FindAny(s, chars, from + 1)

\* urllib.parse.urlparse of a url that starts with file://  : the authority
\* runs to the first / ? or #, an authority with [ and no ] (or ] and no [)
\* is refused with ValueError, and the path stops at the first ? or #.
FILE_SCHEME == <<"f", "i", "l", "e", ":", "/", "/">>
InChars(s, ch) == \E i \in 1..Len(s) : s[i] = ch
urlparse(url) ==
    LET rest == Drop(url, Len(FILE_SCHEME))
        delim == FindAny(rest, {"/", "?", "#"}, 1)
        netloc == SubSeq(rest, 1, delim - 1)
        after == Drop(rest, delim - 1)
        stop == FindAny(after, {"?", "#"}, 1)
    IN IF InChars(netloc, "[") # InChars(netloc, "]")
       THEN [exc |-> "ValueError", netloc |-> <<>>, path |-> <<>>]
       ELSE [exc |-> "", netloc |-> netloc, path |-> SubSeq(after, 1, stop - 1)]

\* urllib.parse.unquote for the escapes that the generated uris hold.
PercentDecoded ==
    [code \in {<<"2", "0">>, <<"2", "F">>, <<"5", "B">>} |->
        CASE code = <<"2", "0">> -> " "
          [] code = <<"2", "F">> -> "/"
          [] OTHER -> "["]
RECURSIVE unquote(_)
unquote(s) ==
    IF s = <<>> THEN <<>>
    ELSE IF Head(s) = "%" /\ Len(s) >= 3 /\ SubSeq(s, 2, 3) \in DOMAIN PercentDecoded
         THEN <<PercentDecoded[SubSeq(s, 2, 3)]>> \o unquote(Drop(s, 3))
    ELSE <<Head(s)>> \o unquote(Tail(s))

\* os.path.expanduser: ~ and ~/... become the home directory; ~name is left
\* alone (no such user).
RECURSIVE RStripSlash(_)
RStripSlash(s) ==
    IF s # <<>> /\ s[Len(s)] = "/" THEN RStripSlash(SubSeq(s, 1, Len(s) - 1)) ELSE s
expanduser(path) ==
    IF ~StartsWith(path, <<"~">>) THEN path
    ELSE LET i == FindAny(path, {"/"}, 2) IN
         IF i # 2 THEN path
         ELSE LET expanded == RStripSlash(Environ[<<"H", "O", "M", "E">>]) \o Drop(path, 1) IN
              IF expanded = <<>> THEN <<"/">> ELSE expanded

\* os.path.expandvars: $name and ${name} become the variable's value, an
\* unset variable is left as written.
WordChars ==
    {"a", "b", "c", "d", "e", "f", "g", "h", "i", "j", "k", "l", "m", "n", "o", "p", "q",
     "r", "s", "t", "u", "v", "w", "x", "y", "z", "A", "B", "C", "D", "E", "F", "G", "H",
     "I", "J", "K", "L", "M", "N", "O", "P", "Q", "R", "S", "T", "U", "V", "W", "X", "Y",
     "Z", "0", "1", "2", "3", "4", "5", "6", "7", "8", "9", "_"}
RECURSIVE WordLen(_)
WordLen(s) == IF s # <<>> /\ Head(s) \in WordChars THEN 1 + WordLen(Tail(s)) ELSE 0
\* The match of  \w+|\{[^}]*\}  at the start of s: its length and the name.
VarMatch(s) ==
    IF s # <<>> /\ Head(s) = "{"
    THEN LET close == FindAny(s, {"}"}, 2) IN
         IF close > Len(s) THEN [len |-> 0, name |-> <<>>]
         ELSE [len |-> close, name |-> SubSeq(s, 2, close - 1)]
    ELSE [len |-> WordLen(s), name |-> SubSeq(s, 1, WordLen(s))]
RECURSIVE expandvars(_)
expandvars(path) ==
    IF path = <<>> THEN <<>>
    ELSE IF Head(path) # "$" THEN <<Head(path)>> \o expandvars(Tail(path))
    ELSE LET m == VarMatch(Tail(path)) IN
         IF m.len = 0 THEN <<"$">> \o expandvars(Tail(path))
         ELSE IF m.name \in DOMAIN Environ
              THEN Environ[m.name] \o expandvars(Drop(path, 1 + m.len))
         ELSE SubSeq(path, 1, 1 + m.len) \o expandvars(Drop(path, 1 + m.len))

\* os.path.abspath: join with the working directory, then normpath.
RECURSIVE SplitSlash(_, _)
SplitSlash(s, comp) ==
    IF s = <<>> THEN <<comp>>
    ELSE IF Head(s) = "/" THEN <<comp>> \o SplitSlash(Tail(s), <<>>)
    ELSE SplitSlash(Tail(s), Append(comp, Head(s)))
RECURSIVE NormLoop(_, _, _)
NormLoop(comps, new, initial_slashes) ==
    IF comps = <<>> THEN new
    ELSE LET comp == Head(comps) IN
         IF comp = <<>> \/ comp = <<".">> THEN NormLoop(Tail(comps), new, initial_slashes)
         ELSE IF \/ comp # <<".", ".">>
                 \/ (initial_slashes = 0 /\ new = <<>>)
                 \/ (new # <<>> /\ new[Len(new)] = <<".", ".">>)
              THEN NormLoop(Tail(comps), Append(new, comp), initial_slashes)
         ELSE IF new # <<>>
              THEN NormLoop(Tail(comps), SubSeq(new, 1, Len(new) - 1), initial_slashes)
         ELSE NormLoop(Tail(comps), new, initial_slashes)
RECURSIVE JoinSlash(_)
JoinSlash(comps) ==
    IF comps = <<>> THEN <<>>
    ELSE IF Len(comps) = 1 THEN Head(comps)
    ELSE Head(comps) \o <<"/">> \o JoinSlash(Tail(comps))
normpath(path) ==
    IF path = <<>> THEN <<".">>
    ELSE LET initial_slashes ==
                 IF ~StartsWith(path, <<"/">>) THEN 0
                 ELSE IF StartsWith(path, <<"/", "/">>) /\ ~StartsWith(path, <<"/", "/", "/">>)
                      THEN 2
                 ELSE 1
             joined == JoinSlash(NormLoop(SplitSlash(path, <<>>), <<>>, initial_slashes))
             out == [j \in 1..initial_slashes |-> "/"] \o joined
         IN IF out = <<>> THEN <<".">> ELSE out
isabs_always(path) == TRUE
isabs(path) == StartsWith(path, <<"/">>)
abspath(path) == IF isabs(path) THEN normpath(path) ELSE normpath(Cwd \o <<"/">> \o path)

ResolveOk(path) == [exc |-> "", path |-> path]
ResolveRaise(exc) == [exc |-> exc, path |-> <<>>]

FromFileUri(resolved) ==
    LET parsed == urlparse(resolved)
        path == unquote(parsed.path)
    IN IF parsed.exc # "" THEN ResolveRaise(parsed.exc)
       ELSE IF parsed.netloc # <<>> /\ path = <<>> THEN ResolveOk(<<"/">> \o parsed.netloc)
       ELSE IF parsed.netloc # <<>> THEN ResolveOk(<<"/">> \o parsed.netloc \o path)
       ELSE ResolveOk(path)

resolve_library_uri(uri) ==
    IF uri = <<>> THEN ResolveRaise("ValueError")
    ELSE LET replaced == ReplaceLoop(uri, replacements)
             located == IF StartsWith(replaced, FILE_SCHEME) THEN FromFileUri(replaced)
                        ELSE ResolveOk(replaced)
         IN IF located.exc # "" THEN located
            ELSE LET resolved == expandvars(expanduser(located.path)) IN
                 IF isabs(resolved) THEN ResolveOk(resolved)
                 ELSE ResolveOk(abspath(resolved))

\* Generated uris: up to MaxPieces pieces, one after the other.
UriPieces ==
    {<<"f", "i", "l", "e", ":", "/", "/">>,
     <<"/">>,
     <<"a">>,
     <<"[">>,
     <<"%", "2", "0">>,
     <<"~">>,
     <<"$", "H", "O", "M", "E">>,
     <<"$", "{", "K", "I", "C", "A", "D", "9", "_", "S", "Y", "M", "B", "O", "L", "_", "D", "I", "R", "}">>,
     <<".", ".">>,
     <<"?">>,
     <<"$", "{", "X", "}">>}
RECURSIVE Concat(_)
Concat(pieces) == IF pieces = <<>> THEN <<>> ELSE Head(pieces) \o Concat(Tail(pieces))
Uris == {Concat(pieces) : pieces \in SeqsUpTo(UriPieces, MaxPieces)}

ResolveInit ==
    /\ rsUri \in Uris
    /\ rsResult = ResolveOk(<<>>)
    /\ rsPc = "call"

ResolveLibraryUri ==
    /\ rsPc = "call"
    /\ rsResult' = resolve_library_uri(rsUri)
    /\ rsPc' = "done"
    /\ UNCHANGED <<rsUri, exceptResolve>>

Absolute(path) == path # <<>> /\ path[1] = "/"

UnmatchedBracketAuthority(uri) ==
    LET url == ReplaceLoop(uri, replacements)
        rest == Drop(url, Len(FILE_SCHEME))
        InAuthority(i) == \A h \in 1..i : rest[h] \notin {"/", "?", "#"}
        Has(ch) == \E i \in 1..Len(rest) : InAuthority(i) /\ rest[i] = ch
    IN StartsWith(url, FILE_SCHEME) /\ (Has("[") # Has("]"))

MaxFormatChildren == 2   \* children of a generated root

FormatPool ==
    {Sym(<<"a">>), Str(<<"b", " ", "c">>), IntNode(7), List(<<>>),
     List(<<Sym(<<"a">>)>>),
     List(<<Sym(<<"a">>), Str(<<"b">>)>>),
     List(<<List(<<>>)>>),
     List(<<List(<<Sym(<<"a">>)>>), Sym(<<"b">>)>>),
     List(<<Sym(<<"a">>), List(<<Sym(<<"b">>), List(<<Sym(<<"c">>), IntNode(1)>>)>>)>>)}
FormatTrees ==
    FormatPool \cup {List(children) : children \in SeqsUpTo(FormatPool, MaxFormatChildren)}

FormatInit ==
    /\ fmTree \in FormatTrees
    /\ fmText = <<>>
    /\ fmPc = "call"

Serialise ==
    /\ fmPc = "call"
    /\ fmText' = _serialise_symbol_library(fmTree)
    /\ fmPc' = "done"
    /\ UNCHANGED <<fmTree, exceptFormat>>

\* The text read as lines.  (No generated atom holds a parenthesis.)
LineStarts(text) == {p \in 1..Len(text) : p = 1 \/ text[p - 1] = "\n"}
FirstInk(text, p) ==
    CHOOSE q \in p..Len(text) : text[q] # " " /\ \A h \in p..(q - 1) : text[h] = " "
Depth(text, p) ==
    Cardinality({i \in 1..(p - 1) : text[i] = "("})
        - Cardinality({i \in 1..(p - 1) : text[i] = ")"})
IndentedByDepth(text) ==
    \A p \in LineStarts(text) :
        LET q == FirstInk(text, p) IN
        /\ text[q] # "\n"
        /\ q - p = 2 * (IF text[q] = ")" THEN Depth(text, p) - 1 ELSE Depth(text, p))
OneTrailingNewline(text) ==
    /\ Len(text) >= 2
    /\ text[Len(text)] = "\n"
    /\ text[Len(text) - 1] # "\n"

\* The tree read as the claim reads it.
RECURSIVE ExpectedLines(_)
RECURSIVE ExpectedLinesFrom(_, _)
RECURSIVE ListsWithHead(_, _)
RECURSIVE ListsWithHeadFrom(_, _, _)
\* An atom, () and a list of one atom take one line; any other list takes a
\* line for its parenthesis (with the head atom), one for the closing
\* parenthesis, and the lines of every other child.
ExpectedLines(node) ==
    IF node.k # "list" \/ node.c = <<>> THEN 1
    ELSE IF Len(node.c) = 1 /\ node.c[1].k # "list" THEN 1
    ELSE 2 + ExpectedLinesFrom(node.c, IF node.c[1].k = "list" THEN 1 ELSE 2)
ExpectedLinesFrom(nodes, from) ==
    IF from > Len(nodes) THEN 0
    ELSE ExpectedLines(nodes[from]) + ExpectedLinesFrom(nodes, from + 1)
\* The non-empty lists in the tree whose first child is (is not) a list.
ListsWithHead(node, headIsList) ==
    IF node.k # "list" THEN 0
    ELSE (IF node.c # <<>> /\ (node.c[1].k = "list") = headIsList THEN 1 ELSE 0)
         + ListsWithHeadFrom(node.c, 1, headIsList)
ListsWithHeadFrom(nodes, from, headIsList) ==
    IF from > Len(nodes) THEN 0
    ELSE ListsWithHead(nodes[from], headIsList) + ListsWithHeadFrom(nodes, from + 1, headIsList)
HeadIsList(node) == node.k = "list" /\ node.c # <<>> /\ node.c[1].k = "list"
OpensFollowedBy(text, chars, wanted) ==
    Cardinality({i \in 1..(Len(text) - 1) : text[i] = "(" /\ ((text[i + 1] \in chars) = wanted)})

\* C14: the head atom follows the opening parenthesis on its line (a list
\* whose first child is a list has the parenthesis alone on the line), every
\* other child starts a line of its own, two spaces deeper than its parent,
\* and the document ends with exactly one newline.
SerialiserLayout ==
    fmPc = "done" =>
        /\ OneTrailingNewline(fmText)
        /\ IndentedByDepth(fmText)
        /\ Cardinality(LineStarts(fmText)) = ExpectedLines(fmTree)
        /\ OpensFollowedBy(fmText, {"\n"}, TRUE) = ListsWithHead(fmTree, TRUE)
        /\ OpensFollowedBy(fmText, {"\n", ")", " "}, FALSE) = ListsWithHead(fmTree, FALSE)

SerialiserLayoutWitness ==
    /\ fmPc = "done"
    /\ HeadIsList(fmTree)
    /\ Len(fmTree.c) = 2
    /\ StartsWith(fmText, <<"(", "\n", " ", " ", "(">>)
    /\ Contains(fmText, <<"\n", " ", " ", " ", " ", " ", " ", "(", "c">>)

(***************************************************************************)
(* Footprints and 3D models: the .kicad_mod and .step/.wrl branches of     *)
(* import_to_kicad.  (Its .kicad_sym branch is ImportSymbolLibrary.)       *)
(*                                                                         *)
(* A path is the sequence of its components; the files are a function from *)
(* the paths that exist to [kind, data], kind "file" or "dir".  The root   *)
(* <<>> is a directory.                                                    *)
(***************************************************************************)
MaxAssetImports == 2   \* footprint and model imports followed

AFile(data) == [kind |-> "file", data |-> data]
ADir == [kind |-> "dir", data |-> ""]

dirname(p) == SubSeq(p, 1, Len(p) - 1)
basename(p) == p[Len(p)]
isdir(files, p) == p = <<>> \/ (p \in DOMAIN files /\ files[p].kind = "dir")
path_exists_never(files, p) == FALSE
path_exists(files, p) == p = <<>> \/ p \in DOMAIN files

\* os.path.splitext(path)[1].lower() of the names in use.
extension(name) ==
    CASE name \in {"a.kicad_mod"} -> ".kicad_mod"
      [] name \in {"a.step", "b.step"} -> ".step"
      [] name \in {"a.WRL"} -> ".wrl"
      [] name \in {"a.txt"} -> ".txt"
      [] OTHER -> ""
ends_with_3dshapes(p) == p # <<>> /\ basename(p) \in {"m.3dshapes", "L.3dshapes"}
shapes_dir_name(library_name) == IF library_name = "L" THEN "L.3dshapes" ELSE "unknown.3dshapes"

WithEntry(files, p, entry) ==
    [q \in DOMAIN files \cup {p} |-> IF q = p THEN entry ELSE files[q]]

\* os.makedirs(name, exist_ok=True): the missing directories are made from
\* the top down; a file in the way is an error.
RECURSIVE makedirs(_, _)
makedirs(files, name) ==
    IF isdir(files, name) THEN [exc |-> "", files |-> files]
    ELSE IF name \in DOMAIN files THEN [exc |-> "FileExistsError", files |-> files]
    ELSE LET above == makedirs(files, dirname(name)) IN
         IF above.exc # "" THEN above
         ELSE [exc |-> "", files |-> WithEntry(above.files, name, ADir)]

\* shutil.copy(src, dst): into dst when dst is a directory; an existing
\* file at the destination is replaced.
shutil_copy(files, src, dst) ==
    LET real_dst == IF isdir(files, dst) THEN Append(dst, basename(src)) ELSE dst IN
    IF real_dst = src /\ src \in DOMAIN files THEN [exc |-> "SameFileError", files |-> files]
    ELSE IF src \notin DOMAIN files THEN [exc |-> "FileNotFoundError", files |-> files]
    ELSE IF files[src].kind = "dir" THEN [exc |-> "IsADirectoryError", files |-> files]
    ELSE IF isdir(files, real_dst) THEN [exc |-> "IsADirectoryError", files |-> files]
    ELSE IF ~isdir(files, dirname(real_dst)) THEN [exc |-> "FileNotFoundError", files |-> files]
    ELSE [exc |-> "", files |-> WithEntry(files, real_dst, AFile(files[src].data))]

\* A target library: its name and where its uri resolves to
\* (resolve_library_uri raises ValueError for a library without uri).
Target(name, hasUri, resolved) == [name |-> name, hasUri |-> hasUri, resolved |-> resolved]

AssetCall(path, destination, before, exc, copied) ==
    [called |-> TRUE, path |-> path, destination |-> destination, before |-> before,
     exc |-> exc, copied |-> copied]

\* From the computed destination on: the two branches are the same but for
\* the directory handed to makedirs.
CopyInto(files, path, destination, directory) ==
    IF path_exists(files, destination)
    THEN [files |-> files, call |-> AssetCall(path, destination, files, "AssertionError", FALSE)]
    ELSE IF path = destination
    THEN [files |-> files, call |-> AssetCall(path, destination, files, "AssertionError", FALSE)]
    ELSE LET made == makedirs(files, directory) IN
         IF made.exc # ""
         THEN [files |-> made.files, call |-> AssetCall(path, destination, files, made.exc, FALSE)]
         ELSE LET copy == shutil_copy(made.files, path, destination) IN
              [files |-> copy.files,
               call |-> AssetCall(path, destination, files, copy.exc, copy.exc = "")]

import_to_kicad(files, path, target_library) ==
    LET ext == extension(basename(path))
        root == target_library.resolved
    IN CASE ext = ".kicad_mod" ->
              IF ~target_library.hasUri
              THEN [files |-> files, call |-> AssetCall(path, <<>>, files, "ValueError", FALSE)]
              ELSE LET destination ==
                           IF isdir(files, root) THEN Append(root, basename(path)) ELSE root
                   IN CopyInto(files, path, destination, dirname(destination))
         [] ext \in {".step", ".wrl"} ->
              IF ~target_library.hasUri
              THEN [files |-> files, call |-> AssetCall(path, <<>>, files, "ValueError", FALSE)]
              ELSE LET model_dir ==
                           IF ends_with_3dshapes(root) THEN root
                           ELSE IF isdir(files, root)
                                THEN Append(root, shapes_dir_name(target_library.name))
                           ELSE Append(dirname(root), shapes_dir_name(target_library.name))
                       destination == Append(model_dir, basename(path))
                   IN CopyInto(files, path, destination, model_dir)
         [] OTHER -> [files |-> files, call |-> AssetCall(path, <<>>, files, "", FALSE)]

\* The files at the start: the sources under in/, and a footprint library
\* fp, a model directory m.3dshapes and a plain directory d, each absent,
\* a file, an empty directory or a directory that already holds the asset.
FromPairs(pairs) == [p \in {x[1] : x \in pairs} |-> (CHOOSE x \in pairs : x[1] = p)[2]]
SourceFiles ==
    {<< <<"in">>, ADir >>,
     << <<"in", "a.kicad_mod">>, AFile("mod") >>,
     << <<"in", "a.step">>, AFile("step") >>,
     << <<"in", "a.WRL">>, AFile("wrl") >>,
     << <<"in", "a.txt">>, AFile("txt") >>}
Stocked(p, how, held) ==
    CASE how = "file" -> {<<p, AFile("old")>>}
      [] how = "dir" -> {<<p, ADir>>}
      [] how = "full" -> {<<p, ADir>>, <<Append(p, held), AFile("old")>>}
      [] OTHER -> {}
AssetStarts ==
    {FromPairs(SourceFiles \cup Stocked(<<"fp">>, fp, "a.kicad_mod")
                 \cup Stocked(<<"m.3dshapes">>, m, "a.step")
                 \cup (IF d = "full"
                       THEN {<< <<"d">>, ADir >>} \cup Stocked(<<"d", "L.3dshapes">>, "full", "a.WRL")
                       ELSE Stocked(<<"d">>, d, "")))
        : fp \in {"absent", "file", "dir", "full"},
          m \in {"absent", "file", "dir", "full"},
          d \in {"absent", "dir", "full"}}
AssetSources ==
    {<<"in", "a.kicad_mod">>, <<"in", "a.step">>, <<"in", "a.WRL">>, <<"in", "a.txt">>,
     <<"in", "b.step">>, <<"fp", "a.kicad_mod">>}
AssetTargets ==
    {Target("L", TRUE, <<"fp">>), Target("L", TRUE, <<"fp", "a.kicad_mod">>),
     Target("L", TRUE, <<"m.3dshapes">>), Target("L", TRUE, <<"d">>),
     Target("L", TRUE, <<"d", "x">>), Target("L", FALSE, <<>>)}

AssetsInit ==
    /\ afs \in AssetStarts
    /\ alast = [AssetCall(<<>>, <<>>, <<>>, "", FALSE) EXCEPT !.called = FALSE]
    /\ acalls = 0

ImportToKicad ==
    /\ acalls < MaxAssetImports
    /\ acalls' = acalls + 1
    /\ \E path \in AssetSources, target_library \in AssetTargets :
          LET result == import_to_kicad(afs, path, target_library) IN
          /\ afs' = result.files
          /\ alast' = result.call
    /\ UNCHANGED exceptAssets

\* C15: a footprint or 3D model import never overwrites a file.  If
\* something exists at the computed destination the import fails before
\* any copy; a copy is made only to a destination that did not exist and
\* is not the source; every file that was there is still there, unchanged.
NeverOverwrites ==
    alast.called =>
        /\ \A p \in DOMAIN alast.before :
              alast.before[p].kind = "file" => (p \in DOMAIN afs /\ afs[p] = alast.before[p])
        /\ (alast.destination # <<>> /\ alast.destination \in DOMAIN alast.before) =>
              (alast.exc = "AssertionError" /\ ~alast.copied /\ afs = alast.before)
        /\ alast.copied =>
              /\ alast.destination \notin DOMAIN alast.before
              /\ alast.destination # alast.path
              /\ afs[alast.destination] = alast.before[alast.path]

NeverOverwritesWitness ==
    /\ alast.called
    /\ alast.exc = "AssertionError"
    /\ alast.path = <<"in", "a.kicad_mod">>
    /\ alast.destination = <<"fp", "a.kicad_mod">>
    /\ afs[alast.destination] = AFile("old")
    /\ afs[alast.path] = AFile("mod")
    /\ afs[<<"in", "a.WRL">>] = AFile("wrl")
    /\ <<"m.3dshapes", "a.WRL">> \in DOMAIN afs

(***************************************************************************)
(* The window (src/src/ui.py): open requests, the launch notification,     *)
(* the queue-drain timer and the Import button.  app.py wires the          *)
(* delegate's callbacks to load_library_tables, get_libraries_for_type and *)
(* import_to_kicad.                                                        *)
(***************************************************************************)
MaxOpens == 3    \* open requests followed
MaxClicks == 2   \* import callback invocations followed

None == ""
OpenPaths == {"a.kicad_sym", "c.txt"}

\* The delegate after initWithContext_ and _build_ui.  selectedRow and
\* buttonEnabled are the table view's selected row (-1: none) and the Import
\* button's state; pending_request is history, the request shown.
NewDelegate ==
    [_has_finished_launching |-> FALSE,
     _queued_paths |-> <<>>,
     _pending_file |-> None,
     _pending_libraries |-> <<>>,
     _pending_library_type |-> None,
     selectedRow |-> -1,
     buttonEnabled |-> FALSE,
     pending_request |-> 0]

\* load_library_tables: the symbol table is parsed first and its error
\* leaves the function at once.  (The footprint table and the 3D roots are
\* absent here.)  parsed is what parse_lib_table makes of the sym-lib-table
\* as it is on disk now.
load_library_tables(cache, parsed) ==
    IF parsed.exc # "" THEN [exc |-> parsed.exc, cache |-> cache]
    ELSE [exc |-> "", cache |-> parsed.libraries]

get_libraries_for_type(cache, library_type) ==
    IF library_type = "symbol" THEN cache ELSE <<>>

_library_type_for_path(path) ==
    CASE path = "a.kicad_sym" -> "symbol"
      [] OTHER -> None

_clear_library_controls_keeping_file(d) ==
    [d EXCEPT !._pending_libraries = <<>>,
              !._pending_library_type = None,
              !.selectedRow = -1,
              !.buttonEnabled = FALSE]
_clear_library_controls(d) ==
    [d EXCEPT !._pending_file = None,
              !._pending_libraries = <<>>,
              !._pending_library_type = None,
              !.selectedRow = -1,
              !.buttonEnabled = FALSE,
              !.pending_request = 0]

_display_library_choices(d, request, library_type, libraries) ==
    [d EXCEPT !._pending_file = request.path,
              !._pending_libraries = libraries,
              !._pending_library_type = library_type,
              !.selectedRow = IF libraries # <<>> THEN 0 ELSE -1,
              !.buttonEnabled = libraries # <<>>,
              !.pending_request = request.id]

\* _handle_open_file for one request [id, path]: the delegate and the cache
\* it leaves, and the error it raised, if any.
AfterLoad(d, loaded, request) ==
    LET library_type == _library_type_for_path(request.path)
        libraries == get_libraries_for_type(loaded.cache, library_type)
    IN IF loaded.exc # "" THEN [exc |-> loaded.exc, d |-> d, cache |-> loaded.cache]
       ELSE IF library_type = None THEN [exc |-> "", d |-> d, cache |-> loaded.cache]
       ELSE IF libraries = <<>>
            THEN [exc |-> "", d |-> _clear_library_controls(d), cache |-> loaded.cache]
       ELSE [exc |-> "",
             d |-> _display_library_choices(d, request, library_type, libraries),
             cache |-> loaded.cache]
_handle_open_file(d, cache, table, request) ==
    AfterLoad(d, load_library_tables(cache, table), request)

\* The loop of processQueuedPaths_: pop, handle, until the queue is empty or
\* a call raises.  done collects the requests the handler was called for.
RECURSIVE DrainLoop(_, _, _, _)
RECURSIVE DrainStep(_, _, _)
DrainLoop(d, cache, table, done) ==
    IF d._queued_paths = <<>> THEN [exc |-> "", d |-> d, cache |-> cache, done |-> done]
    ELSE DrainStep(_handle_open_file([d EXCEPT !._queued_paths = Tail(@)], cache, table,
                                     Head(d._queued_paths)),
                   table, Append(done, Head(d._queued_paths).id))
DrainStep(result, table, done) ==
    IF result.exc # ""
    THEN [exc |-> result.exc, d |-> result.d, cache |-> result.cache, done |-> done]
    ELSE DrainLoop(result.d, result.cache, table, done)

\* application_openFile_ for each request of an open event, in turn, until
\* one raises (application_openFiles_ is this loop).
RECURSIVE OpenLoop(_, _, _, _, _)
RECURSIVE OpenStep(_, _, _, _)
OpenLoop(d, cache, table, requests, done) ==
    IF requests = <<>> THEN [exc |-> "", d |-> d, cache |-> cache, done |-> done]
    ELSE IF d._has_finished_launching
         THEN OpenStep(_handle_open_file(d, cache, table, Head(requests)), table,
                       Tail(requests), Append(done, Head(requests).id))
    ELSE OpenLoop([d EXCEPT !._queued_paths = Append(@, Head(requests))], cache, table,
                  Tail(requests), done)
OpenStep(result, table, requests, done) ==
    IF result.exc # ""
    THEN [exc |-> result.exc, d |-> result.d, cache |-> result.cache, done |-> done]
    ELSE OpenLoop(result.d, result.cache, table, requests, done)

\* handleImportButton_ when the callback ends with outcome ("returned" or
\* "raised"): whether the callback was invoked, with what, and the delegate
\* afterwards.  An error of the callback leaves the handler before
\* _clear_library_controls.
handleImportButton_(d, outcome) ==
    LET selected_index == d.selectedRow IN
    IF d._pending_file = None \/ d._pending_libraries = <<>>
    THEN [invoked |-> FALSE, file |-> None, library |-> <<>>, d |-> d]
    ELSE IF selected_index < 0 \/ selected_index >= Len(d._pending_libraries)
    THEN [invoked |-> FALSE, file |-> None, library |-> <<>>, d |-> d]
    ELSE [invoked |-> TRUE,
          file |-> d._pending_file,
          library |-> d._pending_libraries[selected_index + 1],
          d |-> IF outcome = "returned" THEN _clear_library_controls(d) ELSE d]

\* The sym-lib-table on disk, as parse_lib_table reads it: no file (no
\* record), a table of two libraries, a file that holds a number (TypeError).
RecordA == [key \in {NAME, URI} |-> IF key = NAME THEN <<"A">> ELSE <<"/", "x">>]
RecordB == [key \in {NAME} |-> <<"B">>]
UiTables == {TableOk(<<>>), TableOk(<<RecordA, RecordB>>), TableRaise("TypeError")}

NoEvent == [kind |-> "", file |-> None, library |-> <<>>, before |-> NewDelegate]

\* app.py loads the tables once before the delegate exists, so the
\* application only starts with a table that load_library_tables accepts.
UIInit ==
    /\ delegate = NewDelegate
    /\ uiTimer = FALSE
    /\ symTable \in {table \in UiTables : table.exc = ""}
    /\ SYMBOL_LIBRARIES = symTable.libraries
    /\ reqs = <<>>
    /\ handled = <<>>
    /\ imported = [id \in 1..MaxOpens |-> [invoked |-> 0, returned |-> 0]]
    /\ clicks = 0
    /\ uiEvent = NoEvent

UIIdle ==
    /\ delegate = NewDelegate
    /\ uiTimer = FALSE
    /\ symTable = TableOk(<<>>)
    /\ SYMBOL_LIBRARIES = <<>>
    /\ reqs = <<>>
    /\ handled = <<>>
    /\ imported = <<>>
    /\ clicks = 0
    /\ uiEvent = NoEvent

\* An open event for the paths, in order.
Handled(result) ==
    /\ delegate' = result.d
    /\ SYMBOL_LIBRARIES' = result.cache
    /\ handled' = handled \o result.done
OpenEvent(paths) ==
    /\ Len(reqs) + Len(paths) <= MaxOpens
    /\ reqs' = reqs \o [j \in 1..Len(paths) |->
                          [path |-> paths[j], early |-> ~delegate._has_finished_launching]]
    /\ Handled(OpenLoop(delegate, SYMBOL_LIBRARIES, symTable,
                        [j \in 1..Len(paths) |-> [id |-> Len(reqs) + j, path |-> paths[j]]],
                        <<>>))
    /\ uiEvent' = NoEvent
    /\ UNCHANGED <<uiTimer, symTable, imported, clicks, exceptUI>>

ApplicationOpenFile == \E path \in OpenPaths : OpenEvent(<<path>>)

ApplicationOpenFiles == \E first \in OpenPaths, second \in OpenPaths : OpenEvent(<<first, second>>)

\* applicationDidFinishLaunching_ with _schedule_process_queue.
ApplicationDidFinishLaunching ==
    /\ ~delegate._has_finished_launching
    /\ delegate' = [delegate EXCEPT !._has_finished_launching = TRUE]
    /\ uiTimer' = (delegate._queued_paths # <<>>)
    /\ uiEvent' = NoEvent
    /\ UNCHANGED <<symTable, SYMBOL_LIBRARIES, reqs, handled, imported, clicks, exceptUI>>

\* The timer fires: processQueuedPaths_.
ProcessQueuedPaths ==
    /\ uiTimer
    /\ Handled(DrainLoop(delegate, SYMBOL_LIBRARIES, symTable, <<>>))
    /\ uiTimer' = FALSE
    /\ uiEvent' = NoEvent
    /\ UNCHANGED <<symTable, reqs, imported, clicks, exceptUI>>

\* The user presses Import; import_to_kicad returns a message or raises.
HandleImportButton ==
    /\ clicks < MaxClicks
    /\ \E outcome \in {"returned", "raised"} :
          LET result == handleImportButton_(delegate, outcome)
              request == delegate.pending_request
          IN /\ delegate' = result.d
             /\ IF result.invoked
                THEN /\ clicks' = clicks + 1
                     /\ imported' =
                            [imported EXCEPT
                               ![request].invoked = @ + 1,
                               ![request].returned = IF outcome = "returned" THEN @ + 1 ELSE @]
                     /\ uiEvent' = [kind |-> outcome, file |-> result.file,
                                    library |-> result.library, before |-> delegate]
                ELSE /\ UNCHANGED <<clicks, imported>>
                     /\ uiEvent' = NoEvent
    /\ UNCHANGED <<uiTimer, symTable, SYMBOL_LIBRARIES, reqs, handled, exceptUI>>

\* The user selects another row of the table.
SelectRow ==
    /\ \E row \in 0..(Len(delegate._pending_libraries) - 1) :
          /\ row # delegate.selectedRow
          /\ delegate' = [delegate EXCEPT !.selectedRow = row]
    /\ uiEvent' = NoEvent
    /\ UNCHANGED <<uiTimer, symTable, SYMBOL_LIBRARIES, reqs, handled, imported, clicks, exceptUI>>

\* KiCad (or the user) rewrites the table file.
RewriteTable ==
    /\ symTable' \in UiTables \ {symTable}
    /\ UNCHANGED <<delegate, uiTimer, SYMBOL_LIBRARIES, reqs, handled, imported, clicks, uiEvent,
                   exceptUI>>

(***************************************************************************)
(* The specifications: one component runs, the others stay as constructed. *)
(***************************************************************************)
RoundTripInit ==
    /\ RTInit
    /\ SplitIdle /\ MergeIdle /\ ImportIdle /\ TableIdle
    /\ ResolveIdle /\ FormatIdle /\ AssetsIdle
    /\ UIIdle
RTNext == RTParse \/ RTParseError \/ RTSerialise
SpecRoundTrip == RoundTripInit /\ [][RTNext]_vars

SplitSpecInit ==
    /\ SplitInit
    /\ RTIdle /\ MergeIdle /\ ImportIdle /\ TableIdle
    /\ ResolveIdle /\ FormatIdle /\ AssetsIdle
    /\ UIIdle
SplitNext == Split
SpecSplit == SplitSpecInit /\ [][SplitNext]_vars

MergeSpecInit ==
    /\ MergeInit
    /\ RTIdle /\ SplitIdle /\ ImportIdle /\ TableIdle
    /\ ResolveIdle /\ FormatIdle /\ AssetsIdle
    /\ UIIdle
MergeNext == Merge
SpecMerge == MergeSpecInit /\ [][MergeNext]_vars

ImportInit ==
    /\ Init
    /\ RTIdle /\ SplitIdle /\ MergeIdle /\ TableIdle
    /\ ResolveIdle /\ FormatIdle /\ AssetsIdle
    /\ UIIdle
Next == ImportSymbolLibrary
Spec == ImportInit /\ [][Next]_vars

TableSpecInit ==
    /\ TableInit
    /\ RTIdle /\ SplitIdle /\ MergeIdle /\ ImportIdle
    /\ ResolveIdle /\ FormatIdle /\ AssetsIdle
    /\ UIIdle
TableNext == ParseLibTable
SpecTable == TableSpecInit /\ [][TableNext]_vars

ResolveSpecInit ==
    /\ ResolveInit
    /\ RTIdle /\ SplitIdle /\ MergeIdle /\ ImportIdle
    /\ TableIdle /\ FormatIdle /\ AssetsIdle
    /\ UIIdle
ResolveNext == ResolveLibraryUri
SpecResolve == ResolveSpecInit /\ [][ResolveNext]_vars

FormatSpecInit ==
    /\ FormatInit
    /\ RTIdle /\ SplitIdle /\ MergeIdle /\ ImportIdle
    /\ TableIdle /\ ResolveIdle /\ AssetsIdle
    /\ UIIdle
FormatNext == Serialise
SpecFormat == FormatSpecInit /\ [][FormatNext]_vars

AssetsSpecInit ==
    /\ AssetsInit
    /\ RTIdle /\ SplitIdle /\ MergeIdle /\ ImportIdle
    /\ TableIdle /\ ResolveIdle /\ FormatIdle
    /\ UIIdle
AssetsNext == ImportToKicad
SpecAssets == AssetsSpecInit /\ [][AssetsNext]_vars

UISpecInit ==
    /\ UIInit
    /\ RTIdle /\ SplitIdle /\ MergeIdle /\ ImportIdle
    /\ TableIdle /\ ResolveIdle /\ FormatIdle /\ AssetsIdle
UINext ==
    \/ ApplicationOpenFile
    \/ ApplicationOpenFiles
    \/ ApplicationDidFinishLaunching
    \/ ProcessQueuedPaths
    \/ HandleImportButton
    \/ SelectRow
    \/ RewriteTable
SpecUI == UISpecInit /\ [][UINext]_vars

\* AppKit delivers the launch notification, and the run loop fires a
\* scheduled timer.
SpecUIFair ==
    /\ UISpecInit
    /\ [][UINext]_vars
    /\ WF_vars(ApplicationDidFinishLaunching)
    /\ WF_vars(ProcessQueuedPaths)

\* What the claims say of the requests.
Requested(id) == id <= Len(reqs)
IsHandled(id) == \E j \in 1..Len(handled) : handled[j] = id
Queued(id) ==
    \E j \in 1..Len(delegate._queued_paths) : delegate._queued_paths[j].id = id
HandledOnce == \A i, j \in 1..Len(handled) : handled[i] = handled[j] => i = j
EarlyInOrder ==
    \A i, j \in 1..Len(handled) :
        (i < j /\ reqs[handled[i]].early /\ reqs[handled[j]].early) => handled[i] < handled[j]
LaunchQueueSafety ==
    /\ HandledOnce
    /\ EarlyInOrder
    /\ \A id \in 1..Len(reqs) :
          /\ reqs[id].early => (Queued(id) # IsHandled(id))
          /\ (reqs[id].early /\ IsHandled(id)) => delegate._has_finished_launching
          /\ ~reqs[id].early => (IsHandled(id) /\ ~Queued(id))

\* C16: a request that arrives before the launch notification is queued and
\* is eventually handled, once, in arrival order, after launch; a request
\* that arrives after launch is handled at once and never queued; no
\* request is lost or handled twice.
LaunchQueueClaim ==
    /\ []LaunchQueueSafety
    /\ \A id \in 1..MaxOpens : Requested(id) ~> IsHandled(id)

Cleared(d) ==
    /\ d._pending_file = None
    /\ d._pending_libraries = <<>>
    /\ d._pending_library_type = None
    /\ ~d.buttonEnabled
InvokedWithPending ==
    uiEvent.kind \in {"returned", "raised"} =>
        /\ uiEvent.before._pending_file # None
        /\ uiEvent.before.selectedRow \in 0..(Len(uiEvent.before._pending_libraries) - 1)
        /\ uiEvent.file = uiEvent.before._pending_file
        /\ uiEvent.library = uiEvent.before._pending_libraries[uiEvent.before.selectedRow + 1]

\* C17 as stated: the callback is invoked only with a pending file and a
\* selected row inside the pending list, on that file and library; once it
\* has been invoked the pending state is cleared and the button disabled,
\* so the callback runs at most once for each opened file.
ImportClearsPending ==
    /\ InvokedWithPending
    /\ uiEvent.kind \in {"returned", "raised"} => Cleared(delegate)
    /\ \A id \in DOMAIN imported : imported[id].invoked <= 1

\* C17 (amended): the callback is invoked only with a pending file and a
\* selected row inside the pending list, on that file and library; once it
\* has returned the pending state is cleared and the button disabled, and a
\* callback that raises leaves the delegate as it was; the callback returns
\* at most once for each opened file.
ImportClearsPendingOnReturn ==
    /\ InvokedWithPending
    /\ uiEvent.kind = "returned" => Cleared(delegate)
    /\ uiEvent.kind = "raised" => delegate = uiEvent.before
    /\ \A id \in DOMAIN imported : imported[id].returned <= 1

ImportClearsPendingWitness ==
    /\ uiEvent.kind = "returned"
    /\ uiEvent.file = "a.kicad_sym"
    /\ uiEvent.before.selectedRow = 1
    /\ \E id \in DOMAIN imported : imported[id].invoked = 2 /\ imported[id].returned = 1
====
